---- MODULE Spec2Model ----
(***************************************************************************)
(* The synthetic e-commerce pipeline: Generator -> CSV files -> Loader ->  *)
(* SQLite database -> Reporter.                                            *)
(*                                                                         *)
(* Text is modelled as a sequence of one-character strings, so that the    *)
(* conversions (int(), float(), f"{x:03d}", f"{x:.2f}") are computed and   *)
(* not assumed.  A Python float is modelled as a normalised decimal        *)
(* <<m, e>> standing for m / 10^e (m not divisible by 10 unless e = 0).    *)
(***************************************************************************)
EXTENDS Integers, Sequences, FiniteSets, TLC

\* ------------------------------------------------------------------ bounds
\* Longest CSV file (in data rows) the Loader is run on.
MaxRows == 2
\* Number of Loader runs in one behaviour.
MaxRuns == 2
\* Longest text handed to a field converter in SpecConv.
MaxTextLen == 3
\* Largest seed of the modelled pseudo-random generators.
MaxSeed == 3

\* ------------------------------------------------------------------- text
Digits == <<"0", "1", "2", "3", "4", "5", "6", "7", "8", "9">>

IsDigit(c) == \E d \in 1..10 : Digits[d] = c

DigitVal(c) == (CHOOSE d \in 1..10 : Digits[d] = c) - 1

AllDigits(s) == \A i \in 1..Len(s) : IsDigit(s[i])

RECURSIVE DigitsValue(_)
DigitsValue(s) ==
    IF s = <<>> THEN 0
    ELSE DigitsValue(SubSeq(s, 1, Len(s) - 1)) * 10 + DigitVal(s[Len(s)])

RECURSIVE Pow10(_)
Pow10(n) == IF n = 0 THEN 1 ELSE 10 * Pow10(n - 1)

RECURSIVE Normalise(_, _)
Normalise(m, e) ==
    IF e > 0 /\ m % 10 = 0 THEN Normalise(m \div 10, e - 1) ELSE <<m, e>>

\* The characters of the modelled texts in ASCII order (byte order is the
\* order of SQLite's default BINARY collation).
AsciiOrder ==
    <<"-", ".", "0", "1", "2", "3", "4", "5", "6", "7", "8", "9",
      "A", "B", "C", "D", "G", "M", "O", "P", "R", "S", "U", "x">>

CharRank(c) == CHOOSE i \in 1..Len(AsciiOrder) : AsciiOrder[i] = c

RECURSIVE TextLess(_, _)
TextLess(a, b) ==
    IF b = <<>> THEN FALSE
    ELSE IF a = <<>> THEN TRUE
    ELSE IF a[1] # b[1] THEN CharRank(a[1]) < CharRank(b[1])
    ELSE TextLess(Tail(a), Tail(b))

\* ---------------------------------------------------------- Python values
PyStr(s) == [t |-> "str", v |-> s]
PyInt(n) == [t |-> "int", v |-> <<n>>]
PyFloat(m, e) == [t |-> "float", v |-> Normalise(m, e)]
ValueError == [t |-> "ValueError", v |-> <<>>]
SqlNull == [t |-> "null", v |-> <<>>]

\* int(text) on texts made of digits, "." and letters: a non-empty run of
\* digits is a number, anything else raises ValueError.
PyIntOf(s) ==
    IF Len(s) > 0 /\ AllDigits(s) THEN PyInt(DigitsValue(s)) ELSE ValueError

DotPositions(s) == {i \in 1..Len(s) : s[i] = "."}

\* float(text) on the same texts: digits with at most one "." and at least
\* one digit.
PyFloatOf(s) ==
    LET dots == DotPositions(s) IN
    IF dots = {}
    THEN IF Len(s) > 0 /\ AllDigits(s) THEN PyFloat(DigitsValue(s), 0)
         ELSE ValueError
    ELSE IF Cardinality(dots) > 1 THEN ValueError
    ELSE LET d == CHOOSE i \in dots : TRUE
             ip == SubSeq(s, 1, d - 1)
             fp == SubSeq(s, d + 1, Len(s))
         IN IF Len(ip) + Len(fp) > 0 /\ AllDigits(ip) /\ AllDigits(fp)
            THEN PyFloat(DigitsValue(ip \o fp), Len(fp))
            ELSE ValueError

FIELD_CONVERTERS_RatingAsFloat ==
    [price |-> "float", in_stock |-> "int", quantity |-> "int",
     order_total |-> "float", rating |-> "float", amount |-> "float"]

FIELD_CONVERTERS ==
    [price |-> "float", in_stock |-> "int", quantity |-> "int",
     order_total |-> "float", rating |-> "int", amount |-> "float"]

\* processed[key] = converter(value) if converter else value
ConvertField(key, value) ==
    IF key \in DOMAIN FIELD_CONVERTERS
    THEN IF FIELD_CONVERTERS[key] = "float" THEN PyFloatOf(value)
         ELSE PyIntOf(value)
    ELSE PyStr(value)

ConvertRow(row) == [k \in DOMAIN row |-> ConvertField(k, row[k])]

\* ------------------------------------------------------------ TABLE_CONFIG
\* name, csv and columns as written; pk and fks are the PRIMARY KEY and
\* FOREIGN KEY clauses of the table's schema.
TABLE_CONFIG ==
    << [name |-> "users", csv |-> "users.csv",
        columns |-> <<"user_id", "name", "email", "join_date", "loyalty_tier">>,
        pk |-> "user_id", fks |-> {}],
       [name |-> "products", csv |-> "products.csv",
        columns |-> <<"product_id", "name", "category", "price", "in_stock">>,
        pk |-> "product_id", fks |-> {}],
       [name |-> "orders", csv |-> "orders.csv",
        columns |-> <<"order_id", "user_id", "product_id", "quantity",
                      "order_date", "status", "order_total">>,
        pk |-> "order_id",
        fks |-> {[col |-> "user_id", ref |-> "users", refcol |-> "user_id"],
                 [col |-> "product_id", ref |-> "products",
                  refcol |-> "product_id"]}],
       [name |-> "reviews", csv |-> "reviews.csv",
        columns |-> <<"review_id", "order_id", "rating", "comment",
                      "review_date">>,
        pk |-> "review_id",
        fks |-> {[col |-> "order_id", ref |-> "orders", refcol |-> "order_id"]}],
       [name |-> "payments", csv |-> "payments.csv",
        columns |-> <<"payment_id", "order_id", "amount", "method",
                      "payment_status">>,
        pk |-> "payment_id",
        fks |-> {[col |-> "order_id", ref |-> "orders", refcol |-> "order_id"]}] >>

NumTables == Len(TABLE_CONFIG)

TableNames == {TABLE_CONFIG[i].name : i \in 1..NumTables}

CsvNames == {TABLE_CONFIG[i].csv : i \in 1..NumTables}

ConfigOf(t) == TABLE_CONFIG[CHOOSE i \in 1..NumTables : TABLE_CONFIG[i].name = t]

SeqToSet(s) == {s[i] : i \in 1..Len(s)}

AllColumns == UNION {SeqToSet(TABLE_CONFIG[i].columns) : i \in 1..NumTables}

\* t references r: t's schema has a FOREIGN KEY into r.
References(t, r) == \E fk \in ConfigOf(t).fks : fk.ref = r

\* reversed([cfg["name"] for cfg in TABLE_CONFIG])
DropOrder_Forward == [i \in 1..NumTables |-> TABLE_CONFIG[i].name]

DropOrder == [i \in 1..NumTables |-> TABLE_CONFIG[NumTables + 1 - i].name]

\* the order of the CREATE TABLE statements in the executescript text
CreateOrder == [i \in 1..NumTables |-> TABLE_CONFIG[i].name]

\* ------------------------------------------------------------- CSV inputs
U001 == <<"U", "0", "0", "1">>
U009 == <<"U", "0", "0", "9">>
P001 == <<"P", "0", "0", "1">>
P009 == <<"P", "0", "0", "9">>
O001 == <<"O", "0", "0", "1">>
O002 == <<"O", "0", "0", "2">>
O008 == <<"O", "0", "0", "8">>
O009 == <<"O", "0", "0", "9">>
R001 == <<"R", "0", "0", "1">>
R002 == <<"R", "0", "0", "2">>
R009 == <<"R", "0", "0", "9">>
PM001 == <<"P", "M", "0", "0", "1">>
PM002 == <<"P", "M", "0", "0", "2">>
PM009 == <<"P", "M", "0", "0", "9">>
Date1 == <<"2", "0", "2", "4", "-", "0", "2", "-", "0", "1">>
Date2 == <<"2", "0", "2", "4", "-", "0", "2", "-", "0", "2">>

UserCsvRow(uid) ==
    [user_id |-> uid, name |-> <<"A">>, email |-> <<"A", "x">>,
     join_date |-> Date1, loyalty_tier |-> <<"G">>]

ProductCsvRow(pid, price) ==
    [product_id |-> pid, name |-> <<"S">>, category |-> <<"C">>,
     price |-> price, in_stock |-> <<"5", "3">>]

OrderCsvRow(oid, uid, pid, date) ==
    [order_id |-> oid, user_id |-> uid, product_id |-> pid,
     quantity |-> <<"2">>, order_date |-> date, status |-> <<"D">>,
     order_total |-> <<"1", "9", ".", "0", "0">>]

ReviewCsvRow(rid, oid, rating) ==
    [review_id |-> rid, order_id |-> oid, rating |-> rating,
     comment |-> <<"G">>, review_date |-> Date2]

PaymentCsvRow(pid, oid, status) ==
    [payment_id |-> pid, order_id |-> oid,
     amount |-> <<"1", "9", ".", "0", "0">>, method |-> <<"C">>,
     payment_status |-> status]

\* The data rows a modelled CSV file is made of, per file.
CsvRowChoices ==
    [f \in CsvNames |->
        CASE f = "users.csv" -> <<UserCsvRow(U001)>>
          [] f = "products.csv" ->
                <<ProductCsvRow(P001, <<"9", ".", "5", "0">>),
                  ProductCsvRow(P001, <<"x">>)>>
          [] f = "orders.csv" ->
                <<OrderCsvRow(O001, U001, P001, Date2),
                  OrderCsvRow(O002, U001, P001, Date1)>>
          [] f = "reviews.csv" ->
                <<ReviewCsvRow(R001, O001, <<"5">>),
                  ReviewCsvRow(R002, O001, <<"3">>)>>
          [] f = "payments.csv" ->
                <<PaymentCsvRow(PM001, O001, <<"D">>)>>]

\* The data rows a file can hold: up to n of the rows of choices, a row
\* any number of times, in the order choices lists them.  load_csv converts
\* every row before insert_rows inserts any, and insert_rows inserts them in
\* one transaction, so what a load commits does not depend on the order of
\* the rows within a file.
RowsUpTo(choices, n) ==
    UNION {{[i \in 1..k |-> choices[ix[i]]] :
                ix \in {s \in [1..k -> 1..Len(choices)] :
                            \A i \in 1..k : \A j \in i..k : s[i] <= s[j]}} :
           k \in 0..n}

SeqsUpTo(S, n) == UNION {[1..k -> S] : k \in 0..n}

NoFile == [exists |-> FALSE, rows |-> <<>>]

File(rs) == [exists |-> TRUE, rows |-> rs]

\* What a file of the data directory can be: absent, or a header row
\* followed by up to MaxRows data rows.
CsvFileChoices(f) == {NoFile} \cup {File(rs) : rs \in RowsUpTo(CsvRowChoices[f], MaxRows)}

\* ------------------------------------------------------------ the database
NoTable == [exists |-> FALSE, rows |-> <<>>]

Table(rs) == [exists |-> TRUE, rows |-> rs]

\* A database file that does not exist, or exists and holds no table.
EmptyDb == [t \in TableNames |-> NoTable]

ConvertRows(rs) == [i \in 1..Len(rs) |-> ConvertRow(rs[i])]

\* A database left by an earlier load of other CSV files.
StaleDb ==
    [t \in TableNames |->
        CASE t = "users" -> Table(ConvertRows(<<UserCsvRow(U009)>>))
          [] t = "products" ->
                Table(ConvertRows(<<ProductCsvRow(P009, <<"5">>)>>))
          [] t = "orders" ->
                Table(ConvertRows(<<OrderCsvRow(O008, U009, P009, Date1),
                                    OrderCsvRow(O009, U009, P009, Date1)>>))
          [] t = "reviews" ->
                Table(ConvertRows(<<ReviewCsvRow(R009, O009, <<"4">>)>>))
          [] t = "payments" ->
                Table(ConvertRows(<<PaymentCsvRow(PM002, O009, <<"P">>),
                                    PaymentCsvRow(PM009, O009, <<"D">>)>>))]

\* ------------------------------------------------------------------ state
VARIABLES
    dataDir,      \* DATA_DIR exists
    csv,          \* the CSV files of DATA_DIR, by file name
    dbFile,       \* DB_PATH exists
    tables,       \* the committed content of the database, by table name
    foreignKeys,  \* PRAGMA foreign_keys of the Loader's connection
    pc,           \* where the Loader's main() is
    idx,          \* index of the table the current loop iteration is at
    rows,         \* load_csv's result for the current table
    pending,      \* rows inserted by the open transaction, not yet committed
    error,        \* the exception main() ended with
    runs,         \* Loader runs started
    dbBefore,     \* the database as the current Loader run found it
    rpc,          \* where the Reporter's main() is
    fetched,      \* the rows of the Reporter's cursor, each with its order's id
    report,       \* the data rows of order_summary.csv
    convIn,       \* SpecConv: the (table, column, text) handed to a converter
    convOut,      \* SpecConv: what the converter returned
    gpc,          \* where the Generator's main() is
    gidx,         \* the Generator's loop index
    rngOrders,    \* state of generate_orders' random.Random(42)
    rngReviews,   \* state of generate_reviews' random.Random(7)
    users, products, orders, reviews, payments  \* the Generator's record lists

loaderVars == <<dataDir, csv, dbFile, tables, foreignKeys, pc, idx, rows,
                pending, error, runs, dbBefore>>

reporterVars == <<rpc, fetched, report>>

convVars == <<convIn, convOut>>

genVars == <<gpc, gidx, rngOrders, rngReviews, users, products, orders,
             reviews, payments>>

\* ----------------------------------------------------------------- Loader
\* SQLite's checks on one INSERT: the primary key is unique and, with
\* enforcement on, every foreign key has its parent row.  (NOT NULL cannot
\* fail: every field the CSV reader yields is a text.)
InsertAllowed(tbls, t, pend, row, fk) ==
    LET cfg == ConfigOf(t) IN
    /\ \A i \in 1..Len(tbls[t].rows) : tbls[t].rows[i][cfg.pk] # row[cfg.pk]
    /\ \A i \in 1..Len(pend) : pend[i][cfg.pk] # row[cfg.pk]
    /\ fk => \A f \in cfg.fks :
                /\ tbls[f.ref].exists
                /\ \E i \in 1..Len(tbls[f.ref].rows) :
                      tbls[f.ref].rows[i][f.refcol] = row[f.col]

\* SQLite's check on DROP TABLE: with enforcement on, the implicit DELETE
\* fails if a row of another table still references a row of t.
DropAllowed(tbls, t, fk) ==
    fk => \A c \in TableNames \ {t} : \A f \in ConfigOf(c).fks :
            (f.ref = t /\ tbls[c].exists /\ tbls[t].exists) =>
                \A i \in 1..Len(tbls[c].rows) :
                    \A j \in 1..Len(tbls[t].rows) :
                        tbls[c].rows[i][f.col] # tbls[t].rows[j][f.refcol]

\* What the connection's context manager leaves of the open transaction when
\* main() ends with an exception: it rolls back.
OnException_Commit(tbls, t, pend) ==
    [tbls EXCEPT ![t] = Table(tbls[t].rows \o pend)]

OnException(tbls, t, pend) == tbls

Fail(e) ==
    /\ pc' = "failed"
    /\ error' = e
    /\ rows' = <<>>
    /\ pending' = <<>>

\* main(), lines 146-149: the directory check, then sqlite3.connect, which
\* creates the database file if it is missing.
MainStart_ConnectFirst ==
    /\ pc \in {"idle", "done", "failed"}
    /\ rpc = "idle"
    /\ runs < MaxRuns
    /\ runs' = runs + 1
    /\ dbBefore' = [file |-> dbFile, tables |-> tables]
    /\ dbFile' = TRUE
    /\ IF ~dataDir
       THEN Fail("missing_dir") /\ UNCHANGED <<foreignKeys, idx>>
       ELSE /\ pc' = "reset"
            /\ error' = "none"
            /\ foreignKeys' = FALSE
            /\ idx' = 1
            /\ rows' = <<>>
            /\ pending' = <<>>
    /\ UNCHANGED <<dataDir, csv, tables>>
    /\ UNCHANGED reporterVars
    /\ UNCHANGED convVars
    /\ UNCHANGED genVars

MainStart ==
    /\ pc \in {"idle", "done", "failed"}
    /\ rpc = "idle"
    /\ runs < MaxRuns
    /\ runs' = runs + 1
    /\ dbBefore' = [file |-> dbFile, tables |-> tables]
    /\ IF ~dataDir
       THEN Fail("missing_dir") /\ UNCHANGED <<dbFile, foreignKeys, idx>>
       ELSE /\ pc' = "reset"
            /\ error' = "none"
            /\ dbFile' = TRUE
            /\ foreignKeys' = FALSE
            /\ idx' = 1
            /\ rows' = <<>>
            /\ pending' = <<>>
    /\ UNCHANGED <<dataDir, csv, tables>>
    /\ UNCHANGED reporterVars
    /\ UNCHANGED convVars
    /\ UNCHANGED genVars

\* DROP TABLE IF EXISTS t
DropResult(tbls, t) == [tbls EXCEPT ![t] = NoTable]

\* CREATE TABLE t
CreateResult(tbls, t) == [tbls EXCEPT ![t] = Table(<<>>)]

RECURSIVE DropAll(_, _)
DropAll(tbls, i) ==
    IF i > NumTables THEN tbls ELSE DropAll(DropResult(tbls, DropOrder[i]), i + 1)

RECURSIVE CreateAll(_, _)
CreateAll(tbls, i) ==
    IF i > NumTables THEN tbls
    ELSE CreateAll(CreateResult(tbls, CreateOrder[i]), i + 1)

\* reset_tables as a whole, lines 125-133.  With enforcement off no drop
\* fails, and after the drops no create does.
ResetTables ==
    /\ pc = "reset"
    /\ tables' = CreateAll(DropAll(tables, 1), 1)
    /\ foreignKeys' = TRUE
    /\ pc' = "load"
    /\ idx' = 1
    /\ UNCHANGED <<dataDir, csv, dbFile, rows, pending, error, runs, dbBefore>>
    /\ UNCHANGED reporterVars
    /\ UNCHANGED convVars
    /\ UNCHANGED genVars

\* reset_tables statement by statement (SpecReset): line 126
PragmaOff ==
    /\ pc = "reset"
    /\ foreignKeys' = FALSE
    /\ pc' = "drop"
    /\ idx' = 1
    /\ UNCHANGED <<dataDir, csv, dbFile, tables, rows, pending, error, runs,
                   dbBefore>>
    /\ UNCHANGED reporterVars
    /\ UNCHANGED convVars
    /\ UNCHANGED genVars

\* reset_tables, lines 128-129: one DROP TABLE IF EXISTS
DropTable ==
    /\ pc = "drop"
    /\ LET t == DropOrder[idx] IN
       IF DropAllowed(tables, t, foreignKeys)
       THEN /\ tables' = DropResult(tables, t)
            /\ IF idx < NumTables
               THEN pc' = "drop" /\ idx' = idx + 1
               ELSE pc' = "pragma_on" /\ idx' = 1
            /\ UNCHANGED <<rows, pending, error>>
       ELSE Fail("integrity_error") /\ UNCHANGED <<tables, idx>>
    /\ UNCHANGED <<dataDir, csv, dbFile, foreignKeys, runs, dbBefore>>
    /\ UNCHANGED reporterVars
    /\ UNCHANGED convVars
    /\ UNCHANGED genVars

\* reset_tables, lines 130-131: the commit (nothing is open: SQLite commits
\* each DROP by itself) and the pragma
PragmaOn ==
    /\ pc = "pragma_on"
    /\ foreignKeys' = TRUE
    /\ pc' = "create"
    /\ idx' = 1
    /\ UNCHANGED <<dataDir, csv, dbFile, tables, rows, pending, error, runs,
                   dbBefore>>
    /\ UNCHANGED reporterVars
    /\ UNCHANGED convVars
    /\ UNCHANGED genVars

\* reset_tables, lines 132-133: one CREATE TABLE of the script; the final
\* commit follows the last one
CreateTable ==
    /\ pc = "create"
    /\ LET t == CreateOrder[idx] IN
       IF ~tables[t].exists
       THEN /\ tables' = CreateResult(tables, t)
            /\ IF idx < NumTables
               THEN pc' = "create" /\ idx' = idx + 1
               ELSE pc' = "load" /\ idx' = 1
            /\ UNCHANGED <<rows, pending, error>>
       ELSE Fail("table_exists") /\ UNCHANGED <<tables, idx>>
    /\ UNCHANGED <<dataDir, csv, dbFile, foreignKeys, runs, dbBefore>>
    /\ UNCHANGED reporterVars
    /\ UNCHANGED convVars
    /\ UNCHANGED genVars

\* load_csv, lines 113-122: every data row of the file, converted
ReadRows_SkipFirst(f) ==
    IF f.rows = <<>> THEN <<>> ELSE ConvertRows(Tail(f.rows))

ReadRows(f) == ConvertRows(f.rows)

\* load_csv, lines 109-122
LoadCsv ==
    /\ pc = "load"
    /\ LET f == csv[TABLE_CONFIG[idx].csv] IN
       IF ~f.exists
       THEN Fail("missing_file")
       ELSE LET processed == ReadRows(f) IN
            IF \E i \in 1..Len(processed) : \E k \in DOMAIN processed[i] :
                  processed[i][k] = ValueError
            THEN Fail("value_error")
            ELSE /\ rows' = processed
                 /\ pending' = <<>>
                 /\ pc' = "insert"
                 /\ UNCHANGED error
    /\ UNCHANGED <<dataDir, csv, dbFile, tables, foreignKeys, idx, runs,
                   dbBefore>>
    /\ UNCHANGED reporterVars
    /\ UNCHANGED convVars
    /\ UNCHANGED genVars

\* insert_rows, lines 140-141: one row of the executemany batch
InsertRow ==
    /\ pc = "insert"
    /\ Len(pending) < Len(rows)
    /\ LET cfg == TABLE_CONFIG[idx]
           row == rows[Len(pending) + 1]
           data == [c \in SeqToSet(cfg.columns) |-> row[c]]
       IN IF InsertAllowed(tables, cfg.name, pending, data, foreignKeys)
          THEN /\ pending' = Append(pending, data)
               /\ UNCHANGED <<tables, pc, rows, error>>
          ELSE /\ Fail("integrity_error")
               /\ tables' = OnException(tables, cfg.name, pending)
    /\ UNCHANGED <<dataDir, csv, dbFile, foreignKeys, idx, runs, dbBefore>>
    /\ UNCHANGED reporterVars
    /\ UNCHANGED convVars
    /\ UNCHANGED genVars

\* insert_rows, line 142, and the loop of main(), lines 152-155
CommitTable ==
    /\ pc = "insert"
    /\ Len(pending) = Len(rows)
    /\ LET t == TABLE_CONFIG[idx].name IN
       tables' = [tables EXCEPT ![t] = Table(tables[t].rows \o pending)]
    /\ pending' = <<>>
    /\ rows' = <<>>
    /\ IF idx < NumTables
       THEN pc' = "load" /\ idx' = idx + 1
       ELSE pc' = "done" /\ idx' = idx
    /\ UNCHANGED <<dataDir, csv, dbFile, foreignKeys, error, runs, dbBefore>>
    /\ UNCHANGED reporterVars
    /\ UNCHANGED convVars
    /\ UNCHANGED genVars

\* --------------------------------------------------------------- Reporter
Matches(tbl, col, val) == SelectSeq(tbl, LAMBDA r : r[col] = val)

NullRow(cols) == [c \in cols |-> SqlNull]

\* JOIN: the rows of tbl whose col equals val
InnerMatches(tbl, cols, col, val) == Matches(tbl, col, val)

\* LEFT JOIN: the same, or one all-NULL row when there is none
LeftMatches_Inner(tbl, cols, col, val) == Matches(tbl, col, val)

LeftMatches(tbl, cols, col, val) ==
    IF Matches(tbl, col, val) = <<>> THEN <<NullRow(cols)>>
    ELSE Matches(tbl, col, val)

\* The rows QUERY's FROM clause makes of one order, before the SELECT list
\* drops o.order_id (kept here as o_order_id to tell whose row it is).
JoinOfOrder(o, us, prs, rs, pays) ==
    LET u == InnerMatches(us, SeqToSet(ConfigOf("users").columns),
                          "user_id", o.user_id)
        pr == InnerMatches(prs, SeqToSet(ConfigOf("products").columns),
                           "product_id", o.product_id)
        r == LeftMatches(rs, SeqToSet(ConfigOf("reviews").columns),
                         "order_id", o.order_id)
        pay == LeftMatches(pays, SeqToSet(ConfigOf("payments").columns),
                           "order_id", o.order_id)
        n == Len(u) * Len(pr) * Len(r) * Len(pay)
    IN [k \in 1..n |->
          LET a == (k - 1) % Len(pay)
              b == ((k - 1) \div Len(pay)) % Len(r)
              c == ((k - 1) \div (Len(pay) * Len(r))) % Len(pr)
              d == (k - 1) \div (Len(pay) * Len(r) * Len(pr))
          IN [o_order_id |-> o.order_id,
              user_name |-> u[d + 1].name,
              product_name |-> pr[c + 1].name,
              order_date |-> o.order_date,
              review_rating |-> r[b + 1].rating,
              payment_status |-> pay[a + 1].payment_status]]

RECURSIVE JoinAll(_, _, _, _, _)
JoinAll(os, us, prs, rs, pays) ==
    IF os = <<>> THEN <<>>
    ELSE JoinOfOrder(os[1], us, prs, rs, pays)
            \o JoinAll(Tail(os), us, prs, rs, pays)

\* ORDER BY o.order_date, o.order_id (both TEXT, compared bytewise)
OrderByLess_IdOnly(a, b) == TextLess(a.o_order_id.v, b.o_order_id.v)

OrderByLess(a, b) ==
    \/ TextLess(a.order_date.v, b.order_date.v)
    \/ /\ a.order_date = b.order_date
       /\ TextLess(a.o_order_id.v, b.o_order_id.v)

RECURSIVE InsertOrdered(_, _)
InsertOrdered(x, s) ==
    IF s = <<>> THEN <<x>>
    ELSE IF OrderByLess(s[1], x) THEN <<s[1]>> \o InsertOrdered(x, Tail(s))
    ELSE <<x>> \o s

RECURSIVE SortRows(_)
SortRows(s) == IF s = <<>> THEN <<>> ELSE InsertOrdered(s[1], SortRows(Tail(s)))

\* The orders of the scans of reviews and payments are SQLite's choice: rows
\* with equal ORDER BY keys come out in an order the query does not fix.
ScanOrders(s) ==
    {[i \in 1..Len(s) |-> s[p[i]]] :
        p \in {q \in [1..Len(s) -> 1..Len(s)] :
                 \A i, j \in 1..Len(s) : q[i] = q[j] => i = j}}

RECURSIVE IntText(_)
IntText(n) ==
    IF n < 10 THEN <<Digits[n + 1]>>
    ELSE IntText(n \div 10) \o <<Digits[(n % 10) + 1]>>

\* csv.writer: None is written as the empty field, a str as it is, an int by
\* str().
CsvField(x) ==
    CASE x.t = "null" -> <<>>
      [] x.t = "int" -> IntText(x.v[1])
      [] OTHER -> x.v

\* write_summary's rows, under headers
SummaryRow(r) ==
    [user_name |-> CsvField(r.user_name),
     product_name |-> CsvField(r.product_name),
     order_date |-> CsvField(r.order_date),
     review_rating |-> CsvField(r.review_rating),
     payment_status |-> CsvField(r.payment_status)]

\* The Reporter's main(): fetch_order_summary and write_summary.  It runs
\* while no Loader run is under way (one process at a time uses the
\* database), and the behaviour is followed no further once it has run.
Report ==
    /\ rpc = "idle"
    /\ pc \in {"idle", "done", "failed"}
    /\ IF ~dbFile
       THEN rpc' = "missing_db" /\ UNCHANGED <<fetched, report>>
       ELSE IF \E t \in TableNames : ~tables[t].exists
       THEN rpc' = "sql_error" /\ UNCHANGED <<fetched, report>>
       ELSE \E rs \in ScanOrders(tables["reviews"].rows) :
            \E pays \in ScanOrders(tables["payments"].rows) :
               /\ fetched' = SortRows(JoinAll(tables["orders"].rows,
                                              tables["users"].rows,
                                              tables["products"].rows,
                                              rs, pays))
               /\ report' = [i \in 1..Len(fetched') |-> SummaryRow(fetched'[i])]
               /\ rpc' = "done"
    /\ UNCHANGED loaderVars
    /\ UNCHANGED convVars
    /\ UNCHANGED genVars

\* ------------------------------------------------- Loader and Reporter spec
NoConv == [table |-> "", key |-> "", value |-> <<>>]

NotConverted == [t |-> "none", v |-> <<>>]

ConvIdle == convIn = NoConv /\ convOut = NotConverted

GenIdle ==
    /\ gpc = "idle"
    /\ gidx = 0
    /\ rngOrders = 0
    /\ rngReviews = 0
    /\ users = <<>>
    /\ products = <<>>
    /\ orders = <<>>
    /\ reviews = <<>>
    /\ payments = <<>>

Init ==
    /\ dataDir \in BOOLEAN
    /\ \E u \in CsvFileChoices("users.csv") :
       \E p \in CsvFileChoices("products.csv") :
       \E o \in CsvFileChoices("orders.csv") :
       \E r \in CsvFileChoices("reviews.csv") :
       \E pay \in CsvFileChoices("payments.csv") :
          csv = [f \in CsvNames |->
                   CASE f = "users.csv" -> u
                     [] f = "products.csv" -> p
                     [] f = "orders.csv" -> o
                     [] f = "reviews.csv" -> r
                     [] f = "payments.csv" -> pay]
    /\ ~dataDir => \A f \in CsvNames : ~csv[f].exists
    /\ dbFile \in BOOLEAN
    /\ tables = IF dbFile THEN StaleDb ELSE EmptyDb
    /\ foreignKeys = FALSE
    /\ pc = "idle"
    /\ idx = 1
    /\ rows = <<>>
    /\ pending = <<>>
    /\ error = "none"
    /\ runs = 0
    /\ dbBefore = [file |-> dbFile, tables |-> tables]
    /\ rpc = "idle"
    /\ fetched = <<>>
    /\ report = <<>>
    /\ ConvIdle
    /\ GenIdle

Next ==
    \/ MainStart
    \/ ResetTables
    \/ LoadCsv
    \/ InsertRow
    \/ CommitTable
    \/ Report

vars == <<dataDir, csv, dbFile, tables, foreignKeys, pc, idx, rows, pending,
          error, runs, dbBefore, rpc, fetched, report, convIn, convOut,
          gpc, gidx, rngOrders, rngReviews, users, products, orders, reviews,
          payments>>

Spec == Init /\ [][Next]_vars

\* --------------------------------------- reset_tables statement by statement
\* The Loader with reset_tables taken one SQL statement a step, on CSV files
\* of at most one data row.
InitReset ==
    /\ Init
    /\ \A f \in CsvNames : Len(csv[f].rows) <= 1

NextReset ==
    \/ MainStart
    \/ PragmaOff
    \/ DropTable
    \/ PragmaOn
    \/ CreateTable
    \/ LoadCsv
    \/ InsertRow
    \/ CommitTable

SpecReset == InitReset /\ [][NextReset]_vars

\* ------------------------------------------------- field conversion spec
ConvChars == {"0", "5", ".", "x"}

ConvInputs ==
    {[table |-> TABLE_CONFIG[i].name, key |-> k, value |-> v] :
        i \in 1..NumTables, k \in AllColumns, v \in SeqsUpTo(ConvChars, MaxTextLen)}

LoaderIdle ==
    /\ dataDir = FALSE
    /\ csv = [f \in CsvNames |-> NoFile]
    /\ dbFile = FALSE
    /\ tables = EmptyDb
    /\ foreignKeys = FALSE
    /\ pc = "idle"
    /\ idx = 1
    /\ rows = <<>>
    /\ pending = <<>>
    /\ error = "none"
    /\ runs = 0
    /\ dbBefore = [file |-> FALSE, tables |-> EmptyDb]
    /\ rpc = "idle"
    /\ fetched = <<>>
    /\ report = <<>>

InitConv ==
    /\ LoaderIdle
    /\ GenIdle
    /\ convIn \in {c \in ConvInputs :
                     c.key \in SeqToSet(ConfigOf(c.table).columns)}
    /\ convOut = NotConverted

\* load_csv, lines 119-120, on one field of one row of the table's file
ConvertStep ==
    /\ convOut = NotConverted
    /\ convOut' = ConvertField(convIn.key, convIn.value)
    /\ UNCHANGED convIn
    /\ UNCHANGED loaderVars
    /\ UNCHANGED reporterVars
    /\ UNCHANGED genVars

NextConv == ConvertStep

SpecConv == InitConv /\ [][NextConv]_vars

\* -------------------------------------------------------------- Generator
\* The columns no claim reads (name, email, join_date, category, order_date,
\* comment, review_date) are left out of the Generator's records.

\* range(15) in generate_users and generate_orders
NumRecords == 15

\* The price of each entry of categories, in list order (149.99 is
\* <<14999, 2>>).
PriceFixtures ==
    << <<14999, 2>>, <<1995, 1>>, <<329, 0>>, <<119, 0>>, <<59, 0>>,
       <<3999, 2>>, <<1095, 1>>, <<89, 0>>, <<99, 0>>, <<129, 0>>,
       <<249, 0>>, <<399, 0>>, <<139, 0>>, <<495, 1>>, <<79, 0>> >>

\* f"{n:03d}"
Fmt03d(n) ==
    LET d == IntText(n) IN
    IF Len(d) >= 3 THEN d
    ELSE [i \in 1..(3 - Len(d)) |-> "0"] \o d

\* f"{x:.2f}" of the float <<m, e>>: two decimals, rounded when x has more.
Fmt2f(x) ==
    LET m == x[1]
        e == x[2]
        unit == Pow10(IF e > 2 THEN e - 2 ELSE 0)
        q == m \div unit
        r == m % unit
        cents == IF e <= 2 THEN m * Pow10(2 - e)
                 ELSE IF 2 * r > unit \/ (2 * r = unit /\ q % 2 = 1)
                      THEN q + 1 ELSE q
    IN IntText(cents \div 100)
         \o <<".", Digits[((cents % 100) \div 10) + 1], Digits[(cents % 10) + 1]>>

\* n * x for an int n and a float x.  (For the fixture prices and n <= 4 the
\* binary rounding error of the product is far below half a cent.)
FloatTimes(n, x) == Normalise(n * x[1], x[2])

\* The pseudo-random generators: a sequence fixed by the seed.  The
\* Mersenne Twister is replaced by a small full-period congruential
\* generator, and the seeds 42 and 7 by every seed up to MaxSeed.
RngNext(s) == (5 * s + 3) % 16

\* rng.randint(a, b), after the state has advanced to s
RandInt(s, a, b) == a + (s % (b - a + 1))

Cyclic(list, i) == list[(i % Len(list)) + 1]

\* generate_users, one iteration (idx counts from 0)
GenerateUser(i) ==
    [user_id |-> <<"U">> \o Fmt03d(i + 1),
     loyalty_tier |-> Cyclic(<<"Bronze", "Silver", "Gold">>, i)]

\* generate_products, one iteration (idx counts from 1)
GenerateProduct(i) ==
    [product_id |-> <<"P">> \o Fmt03d(i),
     price |-> Fmt2f(PriceFixtures[i]),
     in_stock |-> 50 + i * 3]

\* price_lookup[pid]: a dict built in list order, so the last product with
\* the id gives the price
PriceLookup_First(prods, pid) == PyFloatOf(prods[1].price).v

PriceLookup(prods, pid) ==
    LET hits == {i \in 1..Len(prods) : prods[i].product_id = pid}
        last == CHOOSE i \in hits : \A j \in hits : j <= i
    IN PyFloatOf(prods[last].price).v

\* generate_orders, one iteration
GenerateOrder(i, us, prods, quantity) ==
    [order_id |-> <<"O">> \o Fmt03d(i + 1),
     user_id |-> us[i + 1].user_id,
     product_id |-> prods[i + 1].product_id,
     quantity |-> quantity,
     status |-> Cyclic(<<"Processing", "Shipped", "Delivered">>, i),
     order_total |->
        Fmt2f(FloatTimes(quantity, PriceLookup(prods, prods[i + 1].product_id)))]

\* generate_reviews, one iteration
GenerateReview_PreviousOrder(i, order, rating) ==
    [review_id |-> <<"R">> \o Fmt03d(i + 1),
     order_id |-> <<"O">> \o Fmt03d(i),
     rating |-> rating]

GenerateReview(i, order, rating) ==
    [review_id |-> <<"R">> \o Fmt03d(i + 1),
     order_id |-> order.order_id,
     rating |-> rating]

\* generate_payments, one iteration
GeneratePayment(i, order) ==
    [payment_id |-> <<"P", "M">> \o Fmt03d(i + 1),
     order_id |-> order.order_id,
     amount |-> order.order_total,
     method |-> Cyclic(<<"Credit Card", "PayPal", "Gift Card">>, i),
     payment_status |-> Cyclic(<<"Completed", "Completed", "Pending">>, i)]

\* csv.DictWriter writes an int by str() and a text as it is.
WrittenRow(r) ==
    [k \in DOMAIN r |->
        IF k \in {"in_stock", "quantity", "rating"} THEN IntText(r[k]) ELSE r[k]]

WrittenRows(rs) == [i \in 1..Len(rs) |-> WrittenRow(rs[i])]

dbVars == <<dbFile, tables, foreignKeys, pc, idx, rows, pending, error, runs,
            dbBefore>>

genLists == <<users, products, orders, reviews, payments>>

\* module import, line 10
GenStart ==
    /\ gpc = "idle"
    /\ dataDir' = TRUE
    /\ gpc' = "users"
    /\ UNCHANGED <<csv, gidx, rngOrders, rngReviews>>
    /\ UNCHANGED genLists
    /\ UNCHANGED <<dbVars, reporterVars, convVars>>

GenUsersStep ==
    /\ gpc = "users"
    /\ users' = Append(users, GenerateUser(gidx))
    /\ IF gidx + 1 < NumRecords
       THEN gidx' = gidx + 1 /\ gpc' = gpc
       ELSE gidx' = 1 /\ gpc' = "products"
    /\ UNCHANGED <<dataDir, csv, rngOrders, rngReviews, products, orders,
                   reviews, payments>>
    /\ UNCHANGED <<dbVars, reporterVars, convVars>>

GenProductsStep ==
    /\ gpc = "products"
    /\ products' = Append(products, GenerateProduct(gidx))
    /\ IF gidx < Len(PriceFixtures)
       THEN gidx' = gidx + 1 /\ gpc' = gpc
       ELSE gidx' = 0 /\ gpc' = "orders"
    /\ UNCHANGED <<dataDir, csv, rngOrders, rngReviews, users, orders,
                   reviews, payments>>
    /\ UNCHANGED <<dbVars, reporterVars, convVars>>

GenOrdersStep ==
    /\ gpc = "orders"
    /\ rngOrders' = RngNext(rngOrders)
    /\ orders' = Append(orders, GenerateOrder(gidx, users, products,
                                              RandInt(rngOrders', 1, 4)))
    /\ IF gidx + 1 < NumRecords
       THEN gidx' = gidx + 1 /\ gpc' = gpc
       ELSE gidx' = 0 /\ gpc' = "reviews"
    /\ UNCHANGED <<dataDir, csv, rngReviews, users, products, reviews,
                   payments>>
    /\ UNCHANGED <<dbVars, reporterVars, convVars>>

GenReviewsStep ==
    /\ gpc = "reviews"
    /\ rngReviews' = RngNext(rngReviews)
    /\ reviews' = Append(reviews, GenerateReview(gidx, orders[gidx + 1],
                                                 RandInt(rngReviews', 3, 5)))
    /\ IF gidx + 1 < Len(orders)
       THEN gidx' = gidx + 1 /\ gpc' = gpc
       ELSE gidx' = 0 /\ gpc' = "payments"
    /\ UNCHANGED <<dataDir, csv, rngOrders, users, products, orders, payments>>
    /\ UNCHANGED <<dbVars, reporterVars, convVars>>

GenPaymentsStep ==
    /\ gpc = "payments"
    /\ payments' = Append(payments, GeneratePayment(gidx, orders[gidx + 1]))
    /\ IF gidx + 1 < Len(orders)
       THEN gidx' = gidx + 1 /\ gpc' = gpc
       ELSE gidx' = 1 /\ gpc' = "write"
    /\ UNCHANGED <<dataDir, csv, rngOrders, rngReviews, users, products,
                   orders, reviews>>
    /\ UNCHANGED <<dbVars, reporterVars, convVars>>

\* main(), lines 166-198: the five write_csv calls, one a step
GenWriteStep ==
    /\ gpc = "write"
    /\ LET f == TABLE_CONFIG[gidx].csv
           rs == CASE gidx = 1 -> users
                   [] gidx = 2 -> products
                   [] gidx = 3 -> orders
                   [] gidx = 4 -> reviews
                   [] gidx = 5 -> payments
       IN csv' = [csv EXCEPT ![f] = File(WrittenRows(rs))]
    /\ IF gidx < NumTables
       THEN gidx' = gidx + 1 /\ gpc' = gpc
       ELSE gidx' = gidx /\ gpc' = "done"
    /\ UNCHANGED <<dataDir, rngOrders, rngReviews>>
    /\ UNCHANGED genLists
    /\ UNCHANGED <<dbVars, reporterVars, convVars>>

InitGen ==
    /\ dataDir \in BOOLEAN
    /\ csv \in {[f \in CsvNames |-> NoFile]} \cup
               (IF dataDir THEN {[f \in CsvNames |-> File(<<>>)]} ELSE {})
    /\ dbFile = FALSE
    /\ tables = EmptyDb
    /\ foreignKeys = FALSE
    /\ pc = "idle"
    /\ idx = 1
    /\ rows = <<>>
    /\ pending = <<>>
    /\ error = "none"
    /\ runs = 0
    /\ dbBefore = [file |-> FALSE, tables |-> EmptyDb]
    /\ rpc = "idle"
    /\ fetched = <<>>
    /\ report = <<>>
    /\ ConvIdle
    /\ gpc = "idle"
    /\ gidx = 0
    /\ rngOrders \in 0..MaxSeed
    /\ rngReviews \in 0..MaxSeed
    /\ users = <<>>
    /\ products = <<>>
    /\ orders = <<>>
    /\ reviews = <<>>
    /\ payments = <<>>

NextGen ==
    \/ GenStart
    \/ GenUsersStep
    \/ GenProductsStep
    \/ GenOrdersStep
    \/ GenReviewsStep
    \/ GenPaymentsStep
    \/ GenWriteStep

SpecGen == InitGen /\ [][NextGen]_vars

\* ------------------------------------------------------------------ C1
\* C1: when a Loader run has failed with the missing-directory error, the
\* database is as the run found it: the database file exists or not as
\* before, and every table is there or not, with the rows it had.
C1_MissingDirLeavesDatabase ==
    (pc = "failed" /\ error = "missing_dir") =>
        /\ dbFile = dbBefore.file
        /\ tables = dbBefore.tables

\* A run has failed for the missing directory over a database holding an
\* earlier load.
C1_Witness ==
    /\ pc = "failed"
    /\ error = "missing_dir"
    /\ ~dataDir
    /\ dbFile
    /\ tables = StaleDb

\* ------------------------------------------------------------------ C2
\* C2: when a Loader run has failed with the missing-file error, no table
\* has been dropped, recreated or inserted into: the tables are as the run
\* found them.
C2_MissingFileLeavesTables ==
    (pc = "failed" /\ error = "missing_file") => tables = dbBefore.tables

\* ------------------------------------------------------------------ C3
LoadedAndReported == pc = "done" /\ rpc = "done"

OrderRows == tables["orders"].rows

FetchedOf(oid) == {i \in 1..Len(fetched) : fetched[i].o_order_id = oid}

ChildrenOf(t, oid) ==
    {i \in 1..Len(tables[t].rows) : tables[t].rows[i].order_id = oid}

OneIfNone(n) == IF n = 0 THEN 1 ELSE n

\* C3 as stated: after a successful load the Reporter returns one row for
\* each order, as many rows as there are orders, and an order with no review
\* has a null review_rating.
C3_OneRowPerOrder ==
    LoadedAndReported =>
        /\ Len(fetched) = Len(OrderRows)
        /\ \A k \in 1..Len(OrderRows) :
              /\ Cardinality(FetchedOf(OrderRows[k].order_id)) = 1
              /\ ChildrenOf("reviews", OrderRows[k].order_id) = {} =>
                    \A i \in FetchedOf(OrderRows[k].order_id) :
                        fetched[i].review_rating = SqlNull

\* C3 amended: after a successful load no order is dropped: every order has
\* one output row for each pair of one of its reviews and one of its
\* payments, a missing review or payment counting as one with a null
\* field, and every output row is an order's.  So the output has as many
\* rows as there are orders when no order has two reviews or two payments,
\* and more otherwise.
C3_NoOrderDropped ==
    LoadedAndReported =>
        /\ Len(report) = Len(fetched)
        /\ \A i \in 1..Len(fetched) :
              \E k \in 1..Len(OrderRows) :
                  OrderRows[k].order_id = fetched[i].o_order_id
        /\ \A k \in 1..Len(OrderRows) :
              LET oid == OrderRows[k].order_id
                  nr == Cardinality(ChildrenOf("reviews", oid))
                  np == Cardinality(ChildrenOf("payments", oid))
              IN /\ Cardinality(FetchedOf(oid)) = OneIfNone(nr) * OneIfNone(np)
                 /\ nr = 0 => \A i \in FetchedOf(oid) :
                                 /\ fetched[i].review_rating = SqlNull
                                 /\ report[i].review_rating = <<>>
                 /\ np = 0 => \A i \in FetchedOf(oid) :
                                 fetched[i].payment_status = SqlNull
        /\ (\A k \in 1..Len(OrderRows) :
               /\ Cardinality(ChildrenOf("reviews", OrderRows[k].order_id)) <= 1
               /\ Cardinality(ChildrenOf("payments", OrderRows[k].order_id)) <= 1)
           => Len(fetched) = Len(OrderRows)
        /\ Len(fetched) >= Len(OrderRows)

\* Two orders are loaded, one with two reviews and one with none, and the
\* report has three rows, one of them with no rating.
C3_Witness ==
    /\ LoadedAndReported
    /\ Len(OrderRows) = 2
    /\ Len(tables["reviews"].rows) = 2
    /\ Len(fetched) = 3
    /\ \E i \in 1..Len(report) : report[i].review_rating = <<>>

\* ------------------------------------------------------------------ C5
\* The table the CSV file of TABLE_CONFIG[i] is to become.
LoadedTable(i) ==
    LET cfg == TABLE_CONFIG[i]
        rs == csv[cfg.csv].rows
    IN Table([j \in 1..Len(rs) |->
                [c \in SeqToSet(cfg.columns) |-> ConvertField(c, rs[j][c])]])

\* C5: after a Loader run that completed, each of the five tables holds the
\* rows of its CSV file, as many and in the file's order, and nothing of
\* what it held before; a second run on the same files leaves the database
\* as the first did.
C5_FullRefresh ==
    pc = "done" =>
        /\ \A i \in 1..NumTables : tables[TABLE_CONFIG[i].name] = LoadedTable(i)
        /\ runs > 1 => tables = dbBefore.tables

\* A second run has completed over the tables the first run loaded.
C5_Witness ==
    /\ pc = "done"
    /\ Len(tables["orders"].rows) = 2
    /\ Len(tables["reviews"].rows) = 1
    /\ runs = 2
    /\ dbBefore.tables = tables

\* ------------------------------------------------------------------ C6
ExpectedDropOrder == <<"payments", "reviews", "orders", "products", "users">>

ExpectedCreateOrder == <<"users", "products", "orders", "reviews", "payments">>

\* Where reset_tables is, what it has done so far is the prefix of: pragma
\* off, the drops in reverse order, pragma on, the creates in forward order.
ResetInOrder ==
    /\ pc = "drop" =>
          /\ ~foreignKeys
          /\ \A i \in 1..NumTables :
                IF i < idx
                THEN ~tables[ExpectedDropOrder[i]].exists
                ELSE tables[ExpectedDropOrder[i]]
                        = dbBefore.tables[ExpectedDropOrder[i]]
    /\ pc = "pragma_on" =>
          /\ ~foreignKeys
          /\ \A t \in TableNames : ~tables[t].exists
    /\ pc = "create" =>
          /\ foreignKeys
          /\ \A i \in 1..NumTables :
                tables[ExpectedCreateOrder[i]].exists <=> i < idx

Dropped(t) == tables[t].exists /\ ~tables'[t].exists

Created(t) == ~tables[t].exists /\ tables'[t].exists

\* C6: reset_tables switches enforcement off, drops payments, reviews,
\* orders, products, users in that order, switches enforcement on and then
\* creates users, products, orders, reviews, payments in that order; a table
\* is dropped only with enforcement off and after every table referencing
\* it, and created only with enforcement on and after every table it
\* references.
C6_ResetOrder ==
    /\ []ResetInOrder
    /\ [][\A t \in TableNames :
            /\ Dropped(t) =>
                  /\ ~foreignKeys
                  /\ \A c \in TableNames : References(c, t) => ~tables[c].exists
            /\ Created(t) =>
                  /\ foreignKeys
                  /\ \A r \in TableNames : References(t, r) => tables[r].exists
         ]_vars

\* A reset over a database holding an earlier load has dropped all tables
\* and has created users and products again.
C6_Witness ==
    /\ pc = "create"
    /\ idx = 3
    /\ foreignKeys
    /\ dbBefore.tables = StaleDb
    /\ tables["products"] = Table(<<>>)
    /\ ~tables["orders"].exists

\* ------------------------------------------------------------------ C9
KeyAtMost(a, b) ==
    \/ TextLess(a.order_date.v, b.order_date.v)
    \/ /\ a.order_date.v = b.order_date.v
       /\ \/ TextLess(a.o_order_id.v, b.o_order_id.v)
          \/ a.o_order_id.v = b.o_order_id.v

\* C9: the rows the Reporter writes are the fetched rows in their order, and
\* of two consecutive rows the earlier has the smaller or equal
\* (order_date, order_id), whatever database the Reporter has read.
C9_ReportOrdered ==
    rpc = "done" =>
        /\ Len(report) = Len(fetched)
        /\ \A i \in 1..Len(fetched) : report[i].order_date = fetched[i].order_date.v
        /\ \A i \in 1..(Len(fetched) - 1) : KeyAtMost(fetched[i], fetched[i + 1])

\* The report's first row is not the orders table's first row: the table
\* holds the later order first, or two orders of one date with the larger
\* id first.
C9_Witness ==
    /\ rpc = "done"
    /\ pc = "done"
    /\ Len(OrderRows) = 2
    /\ Len(fetched) = 2
    /\ fetched[1].o_order_id = OrderRows[2].order_id
    /\ fetched[2].o_order_id = OrderRows[1].order_id

\* ----------------------------------------------------------------- C10
ForeignKeysHold ==
    \A t \in TableNames : \A f \in ConfigOf(t).fks :
        \A i \in 1..Len(tables[t].rows) :
            \E j \in 1..Len(tables[f.ref].rows) :
                tables[f.ref].rows[j][f.refcol] = tables[t].rows[i][f.col]

LoadFailed ==
    pc = "failed" /\ error \in {"missing_file", "value_error", "integrity_error"}

\* C10: while the Loader reads and inserts table number idx, and when it
\* has failed there, the tables before it in the order users, products,
\* orders, reviews, payments hold all rows of their files and that table and
\* the later ones hold no row; when it is done all five are loaded; and at
\* each of these points every stored foreign key has its parent row.
C10_TablesCommittedInOrder ==
    /\ (pc \in {"load", "insert"} \/ LoadFailed) =>
          \A i \in 1..NumTables :
             tables[ExpectedCreateOrder[i]]
                = IF i < idx THEN LoadedTable(i) ELSE Table(<<>>)
    /\ pc = "done" =>
          \A i \in 1..NumTables : tables[ExpectedCreateOrder[i]] = LoadedTable(i)
    /\ (pc \in {"load", "insert", "done"} \/ LoadFailed) => ForeignKeysHold

\* The run has failed on the second row of orders.csv (the first row's
\* order_id again) with users and products committed and orders empty.
C10_Witness ==
    /\ LoadFailed
    /\ error = "integrity_error"
    /\ idx = 3
    /\ Len(csv["orders.csv"].rows) = 2
    /\ csv["orders.csv"].rows[1].order_id = csv["orders.csv"].rows[2].order_id
    /\ Len(tables["users"].rows) = 1
    /\ Len(tables["products"].rows) = 1
    /\ tables["orders"] = Table(<<>>)

\* ------------------------------------------------------------------ C4
Converted == convOut # NotConverted

\* C4 as stated: a converted field is floating-point for price and amount,
\* an integer for in_stock, quantity and rating, and for every other column
\* (order_total among them) the text read from the CSV, in every table.
C4_OrderTotalStaysText ==
    Converted =>
        /\ convIn.key \in {"price", "amount"} =>
              convOut.t \in {"float", "ValueError"}
        /\ convIn.key \in {"in_stock", "quantity", "rating"} =>
              convOut.t \in {"int", "ValueError"}
        /\ convIn.key \notin {"price", "amount", "in_stock", "quantity", "rating"} =>
              convOut = PyStr(convIn.value)

\* C4 amended: a converted field is floating-point for price, amount and
\* order_total, an integer for in_stock, quantity and rating (a text that is
\* no number of that kind raises ValueError), and for every other column the
\* text read from the CSV; the table the field belongs to makes no difference.
C4_ConvertByColumnName ==
    Converted =>
        /\ convIn.key \in {"price", "amount", "order_total"} =>
              convOut.t \in {"float", "ValueError"}
        /\ convIn.key \in {"in_stock", "quantity", "rating"} =>
              convOut.t \in {"int", "ValueError"}
        /\ convIn.key \notin {"price", "amount", "order_total", "in_stock",
                              "quantity", "rating"} =>
              convOut = PyStr(convIn.value)
        /\ convOut.t = "ValueError" <=>
              /\ convIn.key \in {"price", "amount", "order_total", "in_stock",
                                 "quantity", "rating"}
              /\ \/ ~\E i \in 1..Len(convIn.value) : IsDigit(convIn.value[i])
                 \/ \E i \in 1..Len(convIn.value) : convIn.value[i] = "x"
                 \/ Cardinality(DotPositions(convIn.value)) > 1
                 \/ /\ convIn.key \in {"in_stock", "quantity", "rating"}
                    /\ DotPositions(convIn.value) # {}

\* An order_total text with a fraction has been converted to a float, and a
\* rating text to an integer.
C4_Witness ==
    /\ convIn.table = "orders"
    /\ convIn.key = "order_total"
    /\ convIn.value = <<"5", ".", "0">>
    /\ convOut = PyFloat(5, 0)

\* ------------------------------------------------------------------ C7
IdsOf(list, col) == {list[i][col] : i \in 1..Len(list)}

UniqueIds(list, col) ==
    \A i, j \in 1..Len(list) : list[i][col] = list[j][col] => i = j

RecordSetsIntact(us, prs, os, rs, pays) ==
    /\ UniqueIds(us, "user_id")
    /\ UniqueIds(prs, "product_id")
    /\ UniqueIds(os, "order_id")
    /\ UniqueIds(rs, "review_id")
    /\ UniqueIds(pays, "payment_id")
    /\ \A i \in 1..Len(os) :
          /\ os[i].user_id \in IdsOf(us, "user_id")
          /\ os[i].product_id \in IdsOf(prs, "product_id")
    /\ \A i \in 1..Len(rs) : rs[i].order_id \in IdsOf(os, "order_id")
    /\ \A i \in 1..Len(pays) : pays[i].order_id \in IdsOf(os, "order_id")

\* C7: in the Generator's record sets, at every point of the generation and
\* in the files it has written when it is done, ids are unique within their
\* table, every order's user_id and product_id name a generated user and
\* product, and every review's and payment's order_id names a generated order.
C7_GeneratedRecordsIntact ==
    /\ RecordSetsIntact(users, products, orders, reviews, payments)
    /\ gpc = "done" =>
          RecordSetsIntact(csv["users.csv"].rows, csv["products.csv"].rows,
                           csv["orders.csv"].rows, csv["reviews.csv"].rows,
                           csv["payments.csv"].rows)

\* The Generator is done, with all record sets and files full.
C7_Witness ==
    /\ gpc = "done"
    /\ Len(users) = NumRecords
    /\ Len(orders) = NumRecords
    /\ Len(reviews) = NumRecords
    /\ Len(payments) = NumRecords
    /\ Len(csv["payments.csv"].rows) = NumRecords
    /\ reviews[NumRecords].order_id = <<"O", "0", "1", "5">>

\* ------------------------------------------------------------------ C8
\* The whole cents a text with exactly two decimals stands for, or -1.
CentsOf(s) ==
    IF /\ Len(s) >= 4
       /\ s[Len(s) - 2] = "."
       /\ AllDigits(SubSeq(s, 1, Len(s) - 3))
       /\ AllDigits(SubSeq(s, Len(s) - 1, Len(s)))
    THEN DigitsValue(SubSeq(s, 1, Len(s) - 3)) * 100
            + DigitsValue(SubSeq(s, Len(s) - 1, Len(s)))
    ELSE -1

\* C8: every generated order has a quantity of 1 to 4 and an order_total
\* that, written with two decimals, is the quantity times the price of the
\* product its product_id names: order_total_cents = quantity * price_cents.
C8_OrderTotalIsQuantityTimesPrice ==
    \A i \in 1..Len(orders) :
        /\ orders[i].quantity \in 1..4
        /\ CentsOf(orders[i].order_total) >= 0
        /\ \E j \in 1..Len(products) :
              products[j].product_id = orders[i].product_id
        /\ \A j \in 1..Len(products) :
              products[j].product_id = orders[i].product_id =>
                 CentsOf(orders[i].order_total)
                    = orders[i].quantity * CentsOf(products[j].price)

\* Three of product P006 at 39.99 have been ordered for 119.97, and some
\* order has each of the other quantities.
C8_Witness ==
    /\ gpc = "done"
    /\ orders[6].product_id = <<"P", "0", "0", "6">>
    /\ orders[6].quantity = 3
    /\ orders[6].order_total = <<"1", "1", "9", ".", "9", "7">>
    /\ \A q \in 1..4 : \E i \in 1..Len(orders) : orders[i].quantity = q

====
